---- MODULE Spec2Model ----
(***************************************************************************)
(* photochrono: identity clustering (app/pipelines/face.py), tag           *)
(* propagation (app/pipelines/propagate_tags.py) and the tagging panels'   *)
(* store transitions (app/ui_tagging.py, app/widgets/tagging_panel.py).    *)
(*                                                                         *)
(* Tables are modelled as they sit in SQLite: face_boxes is a sequence in  *)
(* rowid order (a SELECT without ORDER BY scans it in that order),         *)
(* photo_tags is a set of rows with primary key (photo_id, tag_type,       *)
(* tag_value).  face_boxes and photo_tags are the tables as the panel's     *)
(* connection sees them, its uncommitted writes included; committed holds   *)
(* the two tables as of the last COMMIT.  Embeddings are fixed-point        *)
(* vectors, 1.0 = Scale.                                                    *)
(***************************************************************************)
EXTENDS Integers, Sequences, FiniteSets, TLC

VARIABLES photos, date_col, phash, face_boxes, photo_tags, committed,
          total_changes, last_pass, op, steps

vars == <<photos, date_col, phash, face_boxes, photo_tags, committed,
          total_changes, last_pass, op, steps>>

\* ------------------------------------------------------------------------
\* Bounds
\* ------------------------------------------------------------------------
MaxSteps == 3

\* ------------------------------------------------------------------------
\* Values
\* ------------------------------------------------------------------------
\* SQL NULL of a TEXT column (cluster_id)
NULL == <<>>

\* SQL NULL of assigned_person_id (people.person_id starts at 1)
NullPerson == 0

\* fixed-point unit of the float32 arithmetic: 1.0 = Scale
Scale == 1000

\* index() calls the pass with sim_threshold=0.68, min_examples=2
SimThreshold == 680

MinExamples == 2

\* returned in op.ret when the call raises instead of returning
Raised == -1

Range(s) == {s[i] : i \in DOMAIN s}

\* ids of the rows of the photos table
PhotoIds(ph) == {ph[k].id : k \in DOMAIN ph}

\* f"C{ci:05d}": one label per cluster position ci
ClusterLabel(ci) == <<"C", ci>>

\* ------------------------------------------------------------------------
\* Vector arithmetic (numpy float32, in fixed point)
\* ------------------------------------------------------------------------
RoundDiv(a, b) == (2 * a + b) \div (2 * b)

RECURSIVE SqrtSearch(_, _, _)
SqrtSearch(n, lo, hi) ==
    IF lo >= hi THEN lo
    ELSE LET mid == (lo + hi + 1) \div 2
         IN IF mid * mid - mid < n THEN SqrtSearch(n, mid, hi)
            ELSE SqrtSearch(n, lo, mid - 1)

\* nearest integer to the square root of n
Sqrt(n) == SqrtSearch(n, 0, 4 * Scale)

RECURSIVE DotFrom(_, _, _)
DotFrom(e, c, i) ==
    IF i > Len(e) THEN 0 ELSE e[i] * c[i] + DotFrom(e, c, i + 1)

\* np.dot(e, c), in units of Scale * Scale
Dot(e, c) == DotFrom(e, c, 1)

\* np.linalg.norm(v), in units of Scale
Norm(v) == Sqrt(Dot(v, v))

\* v / (n + 1e-9): the zero vector stays the zero vector
l2_normalize(v) ==
    LET n == Norm(v)
    IN [i \in DOMAIN v |-> IF n = 0 THEN 0 ELSE RoundDiv(v[i] * Scale, n)]

\* ------------------------------------------------------------------------
\* FaceIndexer._cluster_embeddings
\* ------------------------------------------------------------------------
LoadItemsUnlabeled(fb) ==
    LET rows  == SelectSeq(fb, LAMBDA r : r.embedding # NULL /\ r.cluster_id = NULL)
        items == SelectSeq(rows, LAMBDA r : Len(r.embedding) # 0)
    IN [k \in DOMAIN items |->
          [photo_id |-> items[k].photo_id, face_id |-> items[k].face_id,
           emb |-> l2_normalize(items[k].embedding)]]

\* rows read by the SELECT (embedding IS NOT NULL), empty blobs dropped,
\* each embedding normalised; rowid order
LoadItems(fb) ==
    LET rows  == SelectSeq(fb, LAMBDA r : r.embedding # NULL)
        items == SelectSeq(rows, LAMBDA r : Len(r.embedding) # 0)
    IN [k \in DOMAIN items |->
          [photo_id |-> items[k].photo_id, face_id |-> items[k].face_id,
           emb |-> l2_normalize(items[k].embedding)]]

\* first index of the largest similarity (np.argmax), 0-based
ArgMax(csims) ==
    CHOOSE i \in 0..(Len(csims) - 1) :
        /\ \A j \in DOMAIN csims : csims[j] <= csims[i + 1]
        /\ \A j \in 1..i : csims[j] < csims[i + 1]

\* np.dot raises ValueError when the two vectors differ in size
DotRaises(e, centroids) == \E k \in DOMAIN centroids : Len(centroids[k]) # Len(e)

best_cluster(e, centroids) ==
    IF centroids = <<>> THEN [idx |-> -1, sim |-> -(Scale * Scale)]
    ELSE LET csims == [k \in DOMAIN centroids |-> Dot(e, centroids[k])]
             idx   == ArgMax(csims)
         IN [idx |-> idx, sim |-> csims[idx + 1]]

JoinsBestStrict(b, sim_threshold) == b.idx >= 0 /\ b.sim > sim_threshold * Scale

\* the join test of the main loop: sim >= sim_threshold
JoinsBest(b, sim_threshold) == b.idx >= 0 /\ b.sim >= sim_threshold * Scale

\* running mean of the centroid with the new member, re-normalised
UpdateCentroid(c, emb, n) ==
    l2_normalize([j \in DOMAIN c |-> RoundDiv(c[j] * (n - 1) + emb[j], n)])

RECURSIVE AssignFrom(_, _, _, _)
AssignFrom(items, k, st, sim_threshold) ==
    IF k > Len(items) THEN st
    ELSE IF DotRaises(items[k].emb, st.centroids) THEN [st EXCEPT !.raised = TRUE]
    ELSE LET it == items[k]
             b  == best_cluster(it.emb, st.centroids)
             entry == [photo_id |-> it.photo_id, face_id |-> it.face_id,
                       ncentroids |-> Len(st.centroids),
                       idx |-> b.idx, sim |-> b.sim, cluster |-> -1]
         IN IF JoinsBest(b, sim_threshold)
            THEN LET i == b.idx + 1
                     m == Append(st.members[i], <<it.photo_id, it.face_id>>)
                 IN AssignFrom(items, k + 1,
                      [centroids |-> [st.centroids EXCEPT ![i] =
                                         UpdateCentroid(st.centroids[i], it.emb, Len(m))],
                       members   |-> [st.members EXCEPT ![i] = m],
                       log       |-> Append(st.log, [entry EXCEPT !.cluster = b.idx]),
                       raised    |-> FALSE],
                      sim_threshold)
            ELSE AssignFrom(items, k + 1,
                      [centroids |-> Append(st.centroids, it.emb),
                       members   |-> Append(st.members, << <<it.photo_id, it.face_id>> >>),
                       log       |-> Append(st.log, [entry EXCEPT !.cluster = Len(st.centroids)]),
                       raised    |-> FALSE],
                      sim_threshold)

\* the greedy left-to-right pass over the loaded items
AssignClusters(items, sim_threshold) ==
    AssignFrom(items, 1,
               [centroids |-> <<>>, members |-> <<>>, log |-> <<>>, raised |-> FALSE],
               sim_threshold)

\* a cluster is written only when it has enough examples
IsWritten(m, min_examples) == ~(Len(m) < min_examples)

\* the UPDATEs of the write loop; rows of small clusters are not touched
WriteClusterIds(fb, members, min_examples) ==
    [k \in DOMAIN fb |->
        LET key == <<fb[k].photo_id, fb[k].face_id>>
            cis == {ci \in DOMAIN members :
                       IsWritten(members[ci], min_examples) /\ key \in Range(members[ci])}
        IN IF cis = {} THEN fb[k]
           ELSE [fb[k] EXCEPT !.cluster_id = ClusterLabel((CHOOSE ci \in cis : TRUE) - 1)]]

NoPass == [ran |-> FALSE, min_examples |-> 0, sim_threshold |-> 0,
           members |-> <<>>, centroids |-> <<>>, log |-> <<>>]

\* result of one pass: the table, the pass record and the returned count;
\* a pass that raises in the main loop has written nothing
cluster_embeddings(fb, sim_threshold, min_examples) ==
    LET items == LoadItems(fb)
        st    == AssignClusters(items, sim_threshold)
    IN IF items = <<>>
       THEN [fb |-> fb, ret |-> 0,
             pass |-> [NoPass EXCEPT !.ran = TRUE, !.min_examples = min_examples,
                                     !.sim_threshold = sim_threshold]]
       ELSE IF st.raised
       THEN [fb |-> fb, ret |-> Raised,
             pass |-> [NoPass EXCEPT !.min_examples = min_examples,
                                     !.sim_threshold = sim_threshold,
                                     !.members = st.members,
                                     !.centroids = st.centroids, !.log = st.log]]
       ELSE [fb |-> WriteClusterIds(fb, st.members, min_examples),
             ret |-> Cardinality({ci \in DOMAIN st.members :
                                     IsWritten(st.members[ci], min_examples)}),
             pass |-> [ran |-> TRUE, min_examples |-> min_examples,
                       sim_threshold |-> sim_threshold,
                       members |-> st.members, centroids |-> st.centroids,
                       log |-> st.log]]

\* ------------------------------------------------------------------------
\* FaceIndexer.index
\* ------------------------------------------------------------------------
\* LIMIT -1 is SQLite's "no limit" (limit=None)
NoLimit == -1

\* rows of the photos table read by index(), rowid order
IndexRows(ph, limit) ==
    IF limit = NoLimit \/ limit >= Len(ph) THEN ph ELSE SubSeq(ph, 1, limit)

\* INSERT OR REPLACE per detection without the DELETE before it
ReplaceFacesNoDelete(fb, pid, faces) ==
    SelectSeq(fb, LAMBDA r : r.photo_id # pid \/ r.face_id >= Len(faces)) \o
    [k \in 1..Len(faces) |->
        [photo_id |-> pid, face_id |-> k - 1,
         embedding |-> l2_normalize(faces[k]),
         cluster_id |-> NULL, assigned_person_id |-> NullPerson]]

\* DELETE FROM face_boxes WHERE photo_id=?, then one INSERT per detection
ReplaceFaces(fb, pid, faces) ==
    SelectSeq(fb, LAMBDA r : r.photo_id # pid) \o
    [k \in 1..Len(faces) |->
        [photo_id |-> pid, face_id |-> k - 1,
         embedding |-> l2_normalize(faces[k]),
         cluster_id |-> NULL, assigned_person_id |-> NullPerson]]

RECURSIVE IndexFrom(_, _, _, _, _)
IndexFrom(rows, k, fb, readable, det) ==
    IF k > Len(rows) THEN fb
    ELSE IF rows[k].id \notin readable
         THEN IndexFrom(rows, k + 1, fb, readable, det)
         ELSE IndexFrom(rows, k + 1, ReplaceFaces(fb, rows[k].id, det[rows[k].id]),
                        readable, det)

\* ------------------------------------------------------------------------
\* Tag store (app/ui_tagging.py)
\* ------------------------------------------------------------------------
\* str(person_id), the tag_value of a person tag
Str(person_id) == <<person_id>>

TagRow(photo_id, tag_type, tag_value, source, confidence) ==
    [photo_id |-> photo_id, tag_type |-> tag_type, tag_value |-> tag_value,
     source |-> source, confidence |-> confidence]

SameKey(r, q) ==
    r.photo_id = q.photo_id /\ r.tag_type = q.tag_type /\ r.tag_value = q.tag_value

\* INSERT ... ON CONFLICT(photo_id, tag_type, tag_value) DO UPDATE SET source, confidence
UpsertRow(tags, row) == {r \in tags : ~SameKey(r, row)} \cup {row}

InsertOrReplace(tags, row) == UpsertRow(tags, row)

\* INSERT ... ON CONFLICT(photo_id, tag_type, tag_value) DO NOTHING
InsertOrIgnore(tags, row) ==
    IF \E r \in tags : SameKey(r, row) THEN tags ELSE tags \cup {row}

upsert_person_tag_keep(tags, photo_id, person_id, source, conf) ==
    InsertOrIgnore(tags, TagRow(photo_id, "person", Str(person_id), source, conf))

upsert_person_tag(tags, photo_id, person_id, source, conf) ==
    UpsertRow(tags, TagRow(photo_id, "person", Str(person_id), source, conf))

DateRows(tags, photo_id) ==
    {r \in tags : r.photo_id = photo_id /\ r.tag_type = "date"}

replace_date_tag(tags, photo_id, iso_dt, source, conf) ==
    (tags \ DateRows(tags, photo_id)) \cup {TagRow(photo_id, "date", iso_dt, source, conf)}

\* rows changed by replace_date_tag (one per DELETEd row, one for the INSERT)
ReplaceDateChanges(tags, photo_id) == Cardinality(DateRows(tags, photo_id)) + 1

\* a missing phash (None); like the empty string it is falsy in "if ph:"
NoHash == ""

\* phash_hex of the photo, None when it has no row in phash
fetch_phash(ph, photo_id) == IF photo_id \in DOMAIN ph THEN ph[photo_id] ELSE NoHash

photos_by_phash(ph, phash_hex) == {p \in DOMAIN ph : ph[p] = phash_hex}

\* ------------------------------------------------------------------------
\* Dates
\* ------------------------------------------------------------------------
\* an ISO string is <<day, seconds of the day, format>>
\* qd.toString("yyyy-MM-dd") + "T00:00:00"  (ui_tagging._current_date_iso)
IsoDateTime(day, secs) == <<day, secs, "datetime">>

\* qd.toString("yyyy-MM-dd")  (widgets/tagging_panel._autosave_date)
IsoDate(day) == <<day, 0, "date">>

IsoInvalid == <<0, 0, "invalid">>

\* result of _parse_iso when fromisoformat raises
NoTime == -1

DaySeconds == 24 * 3600

\* _parse_iso: seconds since day 0, NoTime if the string does not parse
parse_iso(s) == IF s[3] = "invalid" THEN NoTime ELSE s[1] * DaySeconds + s[2]

\* ------------------------------------------------------------------------
\* Date writes of the two panels
\* ------------------------------------------------------------------------
RECURSIVE ReplaceForAll(_, _, _, _, _)
ReplaceForAll(tags, pids, iso_dt, source, conf) ==
    IF pids = {} THEN [tags |-> tags, n |-> 0]
    ELSE LET pid  == CHOOSE x \in pids : TRUE
             rest == ReplaceForAll(replace_date_tag(tags, pid, iso_dt, source, conf),
                                   pids \ {pid}, iso_dt, source, conf)
         IN [tags |-> rest.tags, n |-> rest.n + ReplaceDateChanges(tags, pid)]

\* the date writes shared by _save_date_replace and _autosave_date: the
\* human row for the current photo, then one replace per photo returned by
\* photos_by_phash
SaveDate(tags, ph, photo_id, iso_dt, applyToDupes) ==
    LET t1    == replace_date_tag(tags, photo_id, iso_dt, "human", 100)
        hex   == fetch_phash(ph, photo_id)
        dupes == IF applyToDupes /\ hex # NoHash THEN photos_by_phash(ph, hex) ELSE {}
        res   == ReplaceForAll(t1, dupes, iso_dt, "propagated", 95)
    IN [tags |-> res.tags, n |-> ReplaceDateChanges(tags, photo_id) + res.n,
        dupes |-> Cardinality(dupes)]

\* ------------------------------------------------------------------------
\* propagate_date_neighbors (app/pipelines/propagate_tags.py)
\* ------------------------------------------------------------------------
\* mtime of a file os.path.getmtime cannot read
NoFile == -1

\* os.path.dirname(path)
dirname(path) == SubSeq(path, 1, Len(path) - 1)

\* path LIKE base_dir + os.sep + "%"
LikeDir(path, base_dir) ==
    /\ Len(path) > Len(base_dir)
    /\ SubSeq(path, 1, Len(base_dir)) = base_dir

PhotoRow(ph, photo_id) == CHOOSE r \in Range(ph) : r.id = photo_id

Candidates(ph, base_dir, same_folder_only) ==
    IF same_folder_only THEN SelectSeq(ph, LAMBDA r : LikeDir(r.path, base_dir)) ELSE ph

HasHumanDateIgnored(tags, pid) == FALSE

\* SELECT 1 FROM photo_tags WHERE photo_id=? AND tag_type='date' AND source='human'
HasHumanDate(tags, pid) ==
    \E r \in tags : r.photo_id = pid /\ r.tag_type = "date" /\ r.source = "human"

\* time of the neighbour: the capture time if it parses, else the file mtime
NeighborTime(r) ==
    LET exif == IF r.exif_date # NULL THEN parse_iso(r.exif_date) ELSE NoTime
    IN IF exif # NoTime THEN exif
       ELSE IF r.mtime = NoFile THEN NoTime ELSE r.mtime

Abs(x) == IF x < 0 THEN -x ELSE x

\* abs((neigh_dt - base_dt).total_seconds()) / 60.0 <= window_minutes
WithinWindow(neigh_dt, base_dt, window_minutes) ==
    Abs(neigh_dt - base_dt) <= window_minutes * 60

RECURSIVE NeighborsFrom(_, _, _, _, _, _, _)
NeighborsFrom(cands, k, acc, photo_id, iso_dt, window_minutes, only_if_missing_human) ==
    IF k > Len(cands) THEN acc
    ELSE LET r    == cands[k]
             skip == \/ r.id = photo_id
                     \/ only_if_missing_human /\ HasHumanDate(acc.tags, r.id)
                     \/ NeighborTime(r) = NoTime
             hit  == ~skip /\ WithinWindow(NeighborTime(r), parse_iso(iso_dt), window_minutes)
         IN NeighborsFrom(cands, k + 1,
               IF hit
               THEN [tags |-> UpsertRow(acc.tags,
                                 TagRow(r.id, "date", iso_dt, "propagated_time", 75)),
                     updated |-> acc.updated + 1]
               ELSE acc,
               photo_id, iso_dt, window_minutes, only_if_missing_human)

propagate_date_neighbors(tags, ph, has_date_col, photo_id, iso_dt, window_minutes, same_folder_only, only_if_missing_human) ==
    IF photo_id \notin PhotoIds(ph) \/ parse_iso(iso_dt) = NoTime
    THEN [tags |-> tags, ret |-> 0]
    ELSE IF ~has_date_col
    THEN [tags |-> tags, ret |-> Raised]
    ELSE LET base_dir == dirname(PhotoRow(ph, photo_id).path)
             res == NeighborsFrom(Candidates(ph, base_dir, same_folder_only), 1,
                                  [tags |-> tags, updated |-> 0],
                                  photo_id, iso_dt, window_minutes, only_if_missing_human)
         IN [tags |-> res.tags, ret |-> res.updated]

\* window_minutes=45 is the default
WindowMinutes == 45

\* ------------------------------------------------------------------------
\* propagate_person_from_photo (app/pipelines/propagate_tags.py)
\* ------------------------------------------------------------------------
FacesOf(fb, photo_id) == {r \in Range(fb) : r.photo_id = photo_id}

\* SELECT DISTINCT cluster_id ... WHERE photo_id=? AND cluster_id IS NOT NULL
ClustersIn(fb, photo_id) ==
    {r.cluster_id : r \in {q \in FacesOf(fb, photo_id) : q.cluster_id # NULL}}

TargetPhotosOneCluster(fb, cluster_ids) ==
    {r.photo_id : r \in {q \in Range(fb) :
         cluster_ids # {} /\ q.cluster_id = (CHOOSE c \in cluster_ids : TRUE)}}

\* SELECT DISTINCT photo_id FROM face_boxes WHERE cluster_id IN (...)
TargetPhotos(fb, cluster_ids) ==
    {r.photo_id : r \in {q \in Range(fb) : q.cluster_id \in cluster_ids}}

PropagatedRow(pid, person_id) ==
    TagRow(pid, "person", Str(person_id), "propagated_cluster", 90)

\* the insert loop: tc is conn.total_changes, which counts every row the
\* connection has changed since it was opened
RECURSIVE InsertFrom(_, _, _, _)
InsertFrom(order, k, acc, person_id) ==
    IF k > Len(order) THEN acc
    ELSE LET t2  == InsertOrIgnore(acc.tags, PropagatedRow(order[k], person_id))
             tc2 == acc.tc + (IF t2 # acc.tags THEN 1 ELSE 0)
         IN InsertFrom(order, k + 1,
                       [tags |-> t2, tc |-> tc2,
                        inserted |-> acc.inserted + (IF tc2 > 0 THEN 1 ELSE 0)],
                       person_id)

\* order is the iteration order of the set target_ids
propagate_person_from_photo(tags, fb, tc, photo_id, person_id, order) ==
    LET cluster_ids == ClustersIn(fb, photo_id)
        res == InsertFrom(order, 1, [tags |-> tags, tc |-> tc, inserted |-> 0], person_id)
        own == IF photo_id \in Range(order) THEN 1 ELSE 0
    IN IF cluster_ids = {} THEN [tags |-> tags, tc |-> tc, ret |-> 0]
       ELSE [tags |-> res.tags, tc |-> res.tc,
             ret |-> IF res.inserted - own > 0 THEN res.inserted - own ELSE 0]

\* the orders in which a set can be iterated
Orders(S) ==
    {f \in [1..Cardinality(S) -> S] : \A i, j \in 1..Cardinality(S) : f[i] = f[j] => i = j}

\* ------------------------------------------------------------------------
\* TaggingPanel._apply_person_faces and _clear_person_faces
\* ------------------------------------------------------------------------
IsSelected(r, photo_id, face_ids) == r.photo_id = photo_id /\ r.face_id \in face_ids

AssignFacesAnyPhoto(fb, photo_id, face_ids, person_id) ==
    [k \in DOMAIN fb |->
        IF fb[k].face_id \in face_ids
        THEN [fb[k] EXCEPT !.assigned_person_id = person_id] ELSE fb[k]]

\* UPDATE face_boxes SET assigned_person_id=? WHERE photo_id=? AND face_id IN (...)
AssignFaces(fb, photo_id, face_ids, person_id) ==
    [k \in DOMAIN fb |->
        IF IsSelected(fb[k], photo_id, face_ids)
        THEN [fb[k] EXCEPT !.assigned_person_id = person_id] ELSE fb[k]]

\* the cluster UPDATE restricted to faces nobody is assigned to
AssignClusterFacesUnassigned(fb, cluster_ids, person_id) ==
    [k \in DOMAIN fb |->
        IF fb[k].cluster_id \in cluster_ids /\ fb[k].assigned_person_id = NullPerson
        THEN [fb[k] EXCEPT !.assigned_person_id = person_id] ELSE fb[k]]

\* UPDATE face_boxes SET assigned_person_id=? WHERE cluster_id=?, for each cid
AssignClusterFaces(fb, cluster_ids, person_id) ==
    [k \in DOMAIN fb |->
        IF fb[k].cluster_id \in cluster_ids
        THEN [fb[k] EXCEPT !.assigned_person_id = person_id] ELSE fb[k]]

RECURSIVE InsertForAll(_, _, _)
InsertForAll(tags, pids, person_id) ==
    IF pids = {} THEN tags
    ELSE LET pid == CHOOSE x \in pids : TRUE
         IN InsertForAll(InsertOrIgnore(tags, PropagatedRow(pid, person_id)),
                         pids \ {pid}, person_id)

SelectedClusters(fb, photo_id, face_ids) ==
    {r.cluster_id : r \in {q \in Range(fb) :
                              IsSelected(q, photo_id, face_ids) /\ q.cluster_id # NULL}}

apply_person_faces(fb, tags, photo_id, face_ids, person_id) ==
    LET cluster_ids == SelectedClusters(fb, photo_id, face_ids)
        fb1 == AssignFaces(fb, photo_id, face_ids, person_id)
        t1  == upsert_person_tag(tags, photo_id, person_id, "face", 100)
        fb2 == AssignClusterFaces(fb1, cluster_ids, person_id)
        t2  == InsertForAll(t1, TargetPhotos(fb2, cluster_ids), person_id)
    IN [fb |-> fb2, tags |-> t2,
        n |-> Cardinality({k \in DOMAIN fb : IsSelected(fb[k], photo_id, face_ids)}) + 1
              + Cardinality({<<k, c>> \in (DOMAIN fb) \X cluster_ids : fb[k].cluster_id = c})
              + Cardinality(t2 \ t1)]

\* persons assigned to the selected faces
SelectedPersons(fb, photo_id, face_ids) ==
    {r.assigned_person_id : r \in {q \in Range(fb) :
          IsSelected(q, photo_id, face_ids) /\ q.assigned_person_id # NullPerson}}

\* DELETE ... WHERE photo_id=? AND tag_type='person' AND tag_value=? AND source='propagated_cluster'
DeletePropagated(tags, photo_id, person_ids) ==
    {r \in tags : ~(/\ r.photo_id = photo_id /\ r.tag_type = "person"
                    /\ r.tag_value \in {Str(pid) : pid \in person_ids}
                    /\ r.source = "propagated_cluster")}

\* SELECT COUNT(*) FROM face_boxes WHERE photo_id=? AND assigned_person_id=?
CountAssigned(fb, photo_id, pid) ==
    Cardinality({k \in DOMAIN fb : fb[k].photo_id = photo_id /\ fb[k].assigned_person_id = pid})

DeleteUnsupportedSkipped(tags, fb, photo_id, person_ids) == tags

\* DELETE FROM photo_tags WHERE photo_id=? AND tag_type='person' AND tag_value=?
\* for each person with no face left in the photo
DeleteUnsupported(tags, fb, photo_id, person_ids) ==
    {r \in tags : ~(/\ r.photo_id = photo_id /\ r.tag_type = "person"
                    /\ r.tag_value \in {Str(pid) : pid \in
                           {q \in person_ids : CountAssigned(fb, photo_id, q) = 0}})}

\* app/ui_tagging.py
clear_person_faces(fb, tags, photo_id, face_ids) ==
    LET person_ids == SelectedPersons(fb, photo_id, face_ids)
        fb1 == AssignFaces(fb, photo_id, face_ids, NullPerson)
        t1  == DeletePropagated(tags, photo_id, person_ids)
        t2  == DeleteUnsupported(t1, fb1, photo_id, person_ids)
    IN [fb |-> fb1, tags |-> t2,
        n |-> Cardinality({k \in DOMAIN fb : IsSelected(fb[k], photo_id, face_ids)})
              + Cardinality(tags \ t2)]

\* app/widgets/tagging_panel.py: no recount of the remaining faces
clear_person_faces_widget(fb, tags, photo_id, face_ids) ==
    LET person_ids == SelectedPersons(fb, photo_id, face_ids)
        fb1 == AssignFaces(fb, photo_id, face_ids, NullPerson)
        t1  == DeletePropagated(tags, photo_id, person_ids)
    IN [fb |-> fb1, tags |-> t1,
        n |-> Cardinality({k \in DOMAIN fb : IsSelected(fb[k], photo_id, face_ids)})
              + Cardinality(tags \ t1)]

\* ------------------------------------------------------------------------
\* An action whose write raises: the statements before it have run
\* ------------------------------------------------------------------------
\* _apply_person_faces after its first `done` groups of writes: the UPDATE of
\* the selected faces, the upsert of the photo's tag, the UPDATEs per cluster
apply_person_faces_upto(fb, tags, photo_id, face_ids, person_id, done) ==
    LET cluster_ids == SelectedClusters(fb, photo_id, face_ids)
        fb1 == AssignFaces(fb, photo_id, face_ids, person_id)
        t1  == upsert_person_tag(tags, photo_id, person_id, "face", 100)
        fb2 == AssignClusterFaces(fb1, cluster_ids, person_id)
        n1  == Cardinality({k \in DOMAIN fb : IsSelected(fb[k], photo_id, face_ids)})
        n3  == Cardinality({<<k, c>> \in (DOMAIN fb) \X cluster_ids : fb[k].cluster_id = c})
    IN [fb   |-> IF done >= 3 THEN fb2 ELSE fb1,
        tags |-> IF done >= 2 THEN t1 ELSE tags,
        n    |-> n1 + (IF done >= 2 THEN 1 ELSE 0) + (IF done >= 3 THEN n3 ELSE 0)]

\* _clear_person_faces after its first `done` groups of writes: the UPDATE of
\* the selected faces, the DELETEs of the propagated_cluster rows
clear_person_faces_upto(fb, tags, photo_id, face_ids, done) ==
    LET person_ids == SelectedPersons(fb, photo_id, face_ids)
        fb1 == AssignFaces(fb, photo_id, face_ids, NullPerson)
        t1  == IF done >= 2 THEN DeletePropagated(tags, photo_id, person_ids) ELSE tags
    IN [fb |-> fb1, tags |-> t1,
        n  |-> Cardinality({k \in DOMAIN fb : IsSelected(fb[k], photo_id, face_ids)})
               + Cardinality(tags \ t1)]

\* _save_date_replace after its first `done` writes: the DELETE of
\* replace_date_tag for the current photo, its INSERT
SaveDateUpto(tags, photo_id, iso_dt, done) ==
    LET t0 == tags \ DateRows(tags, photo_id)
        t1 == IF done >= 2 THEN t0 \cup {TagRow(photo_id, "date", iso_dt, "human", 100)}
              ELSE t0
    IN [tags |-> t1,
        n    |-> Cardinality(DateRows(tags, photo_id)) + (IF done >= 2 THEN 1 ELSE 0)]

\* ------------------------------------------------------------------------
\* Inputs
\* ------------------------------------------------------------------------
EA == <<1000, 0>>

\* cosine similarity with EA exactly 0.68
EB == <<680, 733>>

\* cosine similarity with EA 0.679
EC == <<679, 734>>

ED == <<0, 1000>>

\* a zero vector
EZ == <<0, 0>>

\* an embedding of another size (another recognition model)
E3 == <<1000, 0, 0>>

\* size of the embeddings of the model in use
Dim == 2

\* detector outputs with a zero vector or a vector of another size
OddFaceLists == {<<EA>>, <<EZ>>, <<E3>>, <<EA, EZ>>}

\* what the detector may return for one photo
FaceLists == {<<>>, <<EA>>, <<EB>>, <<EC>>, <<EA, EB>>, <<EA, EA>>}

\* index(limit=None) and index(limit=1)
Limits == {NoLimit, 1}

Thresholds == {SimThreshold, 700}

MinExamplesSet == {1, MinExamples, 3}

PathA1 == <<"a", "1.jpg">>

PathA2 == <<"a", "2.jpg">>

PhotosTwo ==
    << [id |-> 1, path |-> PathA1, exif_date |-> NULL, mtime |-> 0],
       [id |-> 2, path |-> PathA2, exif_date |-> NULL, mtime |-> 0] >>

Days == {1, 2}

\* iso_dt arguments of propagate_date_neighbors
IsoInputs == {IsoDateTime(1, 0), IsoDateTime(1, 1200), IsoDate(1), IsoInvalid}

PathB3 == <<"b", "3.jpg">>

PathSub3 == <<"a", "sub", "3.jpg">>

\* three photos: 1 and 2 in folder a, 20 minutes apart by mtime; photo 3
\* exactly 45 minutes after photo 1
PhotosThree(path3, exif2) ==
    << [id |-> 1, path |-> PathA1, exif_date |-> NULL, mtime |-> DaySeconds],
       [id |-> 2, path |-> PathA2, exif_date |-> exif2, mtime |-> DaySeconds + 1200],
       [id |-> 3, path |-> path3, exif_date |-> NULL, mtime |-> DaySeconds + 2700] >>

PhotoTables == {PhotosThree(PathB3, NULL), PhotosThree(PathSub3, IsoDateTime(1, 2701))}

\* the phash table: photos 1 and 2 are duplicates, photo 3 has no hash yet
PhashTables == {(1 :> "h1") @@ (2 :> "h1")}

Persons == {1, 2}

\* detector outputs of the indexed three-photo library
PersonDets ==
    { (1 :> <<EA, ED>>) @@ (2 :> <<EA>>) @@ (3 :> <<ED>>),
      (1 :> <<EA, EA>>) @@ (2 :> <<EA>>) @@ (3 :> <<ED>>) }

\* ------------------------------------------------------------------------
\* Actions: indexing and clustering
\* ------------------------------------------------------------------------
\* conn.commit(): the connection's writes become the committed tables
Commit == committed' = [fb |-> face_boxes', tags |-> photo_tags']

Index ==
    /\ steps < MaxSteps
    /\ \E limit \in Limits :
       \E readable \in SUBSET PhotoIds(photos) :
         LET rows == IndexRows(photos, limit)
             done == {rows[k].id : k \in DOMAIN rows} \cap readable
         IN \E det \in [done -> FaceLists] :
              LET fb1 == IndexFrom(rows, 1, face_boxes, readable, det)
                  res == cluster_embeddings(fb1, SimThreshold, MinExamples)
              IN /\ face_boxes' = res.fb
                 /\ last_pass' = res.pass
                 /\ op' = [name |-> "index", args |-> <<limit, readable, det>>,
                           ret |-> IF res.ret = Raised THEN Raised
                                   ELSE Cardinality(done)]
    /\ steps' = steps + 1
    /\ UNCHANGED <<photos, date_col, phash, photo_tags, total_changes>>
    /\ Commit

\* index() on photos for which the detector may return a zero vector or a
\* vector of another size
IndexOdd ==
    /\ steps < MaxSteps
    /\ \E limit \in Limits :
       \E readable \in SUBSET PhotoIds(photos) :
         LET rows == IndexRows(photos, limit)
             done == {rows[k].id : k \in DOMAIN rows} \cap readable
         IN \E det \in [done -> OddFaceLists] :
              LET fb1 == IndexFrom(rows, 1, face_boxes, readable, det)
                  res == cluster_embeddings(fb1, SimThreshold, MinExamples)
              IN /\ face_boxes' = res.fb
                 /\ last_pass' = res.pass
                 /\ op' = [name |-> "index", args |-> <<limit, readable, det>>,
                           ret |-> IF res.ret = Raised THEN Raised
                                   ELSE Cardinality(done)]
    /\ steps' = steps + 1
    /\ UNCHANGED <<photos, date_col, phash, photo_tags, total_changes>>
    /\ Commit

\* index() of the three-photo library: the detector returns for each
\* readable file what it returned when the library was first indexed, or
\* the other detector output
IndexLibrary ==
    /\ steps < MaxSteps
    /\ \E readable \in SUBSET PhotoIds(photos) : \E d \in PersonDets :
         LET rows == IndexRows(photos, NoLimit)
             done == {rows[k].id : k \in DOMAIN rows} \cap readable
             det  == [p \in done |-> d[p]]
             fb1  == IndexFrom(rows, 1, face_boxes, readable, det)
             res  == cluster_embeddings(fb1, SimThreshold, MinExamples)
         IN /\ face_boxes' = res.fb
            /\ last_pass' = res.pass
            /\ op' = [name |-> "index", args |-> <<NoLimit, readable, det>>,
                      ret |-> IF res.ret = Raised THEN Raised
                              ELSE Cardinality(done)]
    /\ steps' = steps + 1
    /\ UNCHANGED <<photos, date_col, phash, photo_tags, total_changes>>
    /\ Commit

\* index() run again on the same files with the same detector output as
\* the index() call before it
Reindex ==
    /\ steps < MaxSteps
    /\ op.name \in {"index", "reindex"}
    /\ LET limit    == op.args[1]
           readable == op.args[2]
           det      == op.args[3]
           rows     == IndexRows(photos, limit)
           fb1      == IndexFrom(rows, 1, face_boxes, readable, det)
           res      == cluster_embeddings(fb1, SimThreshold, MinExamples)
       IN /\ face_boxes' = res.fb
          /\ last_pass' = res.pass
          /\ op' = [name |-> "reindex", args |-> <<limit, readable, det>>,
                    ret |-> IF res.ret = Raised THEN Raised
                            ELSE Cardinality(DOMAIN det)]
    /\ steps' = steps + 1
    /\ UNCHANGED <<photos, date_col, phash, photo_tags, total_changes>>
    /\ Commit

ClusterEmbeddings ==
    /\ steps < MaxSteps
    /\ \E sim_threshold \in Thresholds : \E min_examples \in MinExamplesSet :
         LET res == cluster_embeddings(face_boxes, sim_threshold, min_examples)
         IN /\ face_boxes' = res.fb
            /\ last_pass' = res.pass
            /\ op' = [name |-> "cluster_embeddings",
                      args |-> <<sim_threshold, min_examples>>, ret |-> res.ret]
    /\ steps' = steps + 1
    /\ UNCHANGED <<photos, date_col, phash, photo_tags, total_changes>>
    /\ Commit

\* ------------------------------------------------------------------------
\* Actions: dates
\* ------------------------------------------------------------------------
SaveDateReplace ==
    /\ steps < MaxSteps
    /\ \E cur \in PhotoIds(photos) : \E day \in Days : \E applyToDupes \in BOOLEAN :
         LET iso == IsoDateTime(day, 0)
             res == SaveDate(photo_tags, phash, cur, iso, applyToDupes)
         IN /\ photo_tags' = res.tags
            /\ total_changes' = total_changes + res.n
            /\ op' = [name |-> "save_date_replace", args |-> <<cur, iso, applyToDupes>>,
                      ret |-> res.dupes]
    /\ steps' = steps + 1
    /\ UNCHANGED <<photos, date_col, phash, face_boxes, last_pass>>
    /\ Commit

AutosaveDate ==
    /\ steps < MaxSteps
    /\ \E cur \in PhotoIds(photos) : \E day \in Days : \E applyToDupes \in BOOLEAN :
         LET iso == IsoDate(day)
             res == SaveDate(photo_tags, phash, cur, iso, applyToDupes)
         IN /\ photo_tags' = res.tags
            /\ total_changes' = total_changes + res.n
            /\ op' = [name |-> "autosave_date", args |-> <<cur, iso, applyToDupes>>,
                      ret |-> res.dupes]
    /\ steps' = steps + 1
    /\ UNCHANGED <<photos, date_col, phash, face_boxes, last_pass>>
    /\ Commit

PropagateDateNeighbors ==
    /\ steps < MaxSteps
    /\ \E photo_id \in PhotoIds(photos) : \E iso_dt \in IsoInputs :
       \E same_folder_only \in BOOLEAN : \E only_if_missing_human \in BOOLEAN :
         LET res == propagate_date_neighbors(photo_tags, photos, date_col, photo_id, iso_dt,
                        WindowMinutes, same_folder_only, only_if_missing_human)
         IN /\ photo_tags' = res.tags
            /\ total_changes' = total_changes + (IF res.ret = Raised THEN 0 ELSE res.ret)
            /\ op' = [name |-> "propagate_date_neighbors",
                      args |-> <<photo_id, iso_dt, WindowMinutes, same_folder_only,
                                 only_if_missing_human>>,
                      ret |-> res.ret]
    /\ steps' = steps + 1
    /\ UNCHANGED <<photos, date_col, phash, face_boxes, last_pass>>
    /\ Commit

\* ------------------------------------------------------------------------
\* Actions: persons
\* ------------------------------------------------------------------------
\* the face rectangles the user can select in the preview of a photo
Selections(fb, photo_id) ==
    (SUBSET {r.face_id : r \in FacesOf(fb, photo_id)}) \ {{}}

ApplyPersonFaces ==
    /\ steps < MaxSteps
    /\ \E cur \in PhotoIds(photos) : \E face_ids \in Selections(face_boxes, cur) :
       \E person_id \in Persons :
         LET res == apply_person_faces(face_boxes, photo_tags, cur, face_ids, person_id)
         IN /\ face_boxes' = res.fb
            /\ photo_tags' = res.tags
            /\ total_changes' = total_changes + res.n
            /\ op' = [name |-> "apply_person_faces", args |-> <<cur, face_ids, person_id>>,
                      ret |-> Cardinality(face_ids)]
    /\ steps' = steps + 1
    /\ UNCHANGED <<photos, date_col, phash, last_pass>>
    /\ Commit

ClearPersonFaces ==
    /\ steps < MaxSteps
    /\ \E cur \in PhotoIds(photos) : \E face_ids \in Selections(face_boxes, cur) :
         LET res == clear_person_faces(face_boxes, photo_tags, cur, face_ids)
         IN /\ face_boxes' = res.fb
            /\ photo_tags' = res.tags
            /\ total_changes' = total_changes + res.n
            /\ op' = [name |-> "clear_person_faces",
                      args |-> <<cur, face_ids,
                                 SelectedPersons(face_boxes, cur, face_ids)>>,
                      ret |-> Cardinality(face_ids)]
    /\ steps' = steps + 1
    /\ UNCHANGED <<photos, date_col, phash, last_pass>>
    /\ Commit

ClearPersonFacesWidget ==
    /\ steps < MaxSteps
    /\ \E cur \in PhotoIds(photos) : \E face_ids \in Selections(face_boxes, cur) :
         LET res == clear_person_faces_widget(face_boxes, photo_tags, cur, face_ids)
         IN /\ face_boxes' = res.fb
            /\ photo_tags' = res.tags
            /\ total_changes' = total_changes + res.n
            /\ op' = [name |-> "clear_person_faces_widget",
                      args |-> <<cur, face_ids,
                                 SelectedPersons(face_boxes, cur, face_ids)>>,
                      ret |-> Cardinality(face_ids)]
    /\ steps' = steps + 1
    /\ UNCHANGED <<photos, date_col, phash, last_pass>>
    /\ Commit

\* db is the panel's open connection ("conn") or a database path ("path"),
\* for which _conn opens a new connection with total_changes = 0
PropagatePerson ==
    /\ steps < MaxSteps
    /\ \E db \in {"conn", "path"} : \E photo_id \in PhotoIds(photos) :
       \E person_id \in Persons :
       \E order \in Orders(TargetPhotos(face_boxes, ClustersIn(face_boxes, photo_id))) :
         LET tc  == IF db = "conn" THEN total_changes ELSE 0
             res == propagate_person_from_photo(photo_tags, face_boxes, tc,
                                                photo_id, person_id, order)
         IN /\ photo_tags' = res.tags
            /\ total_changes' = IF db = "conn" THEN res.tc ELSE total_changes
            /\ op' = [name |-> "propagate_person_from_photo",
                      args |-> <<photo_id, person_id, db>>, ret |-> res.ret]
    /\ steps' = steps + 1
    /\ UNCHANGED <<photos, date_col, phash, face_boxes, last_pass>>
    /\ Commit

\* upsert_person_tag called with its defaults (source="human", conf=1.0)
UpsertPersonTag ==
    /\ steps < MaxSteps
    /\ \E photo_id \in PhotoIds(photos) : \E person_id \in Persons :
         /\ photo_tags' = upsert_person_tag(photo_tags, photo_id, person_id, "human", 100)
         /\ op' = [name |-> "upsert_person_tag", args |-> <<photo_id, person_id>>,
                   ret |-> 0]
    /\ total_changes' = total_changes + 1
    /\ steps' = steps + 1
    /\ UNCHANGED <<photos, date_col, phash, face_boxes, last_pass>>
    /\ Commit

\* ------------------------------------------------------------------------
\* Specifications
\* ------------------------------------------------------------------------
InitOp == [name |-> "init", args |-> <<>>, ret |-> 0]

\* the store right after FaceIndexer.__init__ on a two-photo library
InitIndex ==
    /\ photos = PhotosTwo
    /\ date_col = TRUE
    /\ phash = <<>>
    /\ face_boxes = <<>>
    /\ photo_tags = {}
    /\ committed = [fb |-> face_boxes, tags |-> photo_tags]
    /\ total_changes = 0
    /\ last_pass = NoPass
    /\ op = InitOp
    /\ steps = 0

NextIndex == Index

SpecIndex == InitIndex /\ [][NextIndex]_vars

NextReindex == Index \/ Reindex

SpecReindex == InitIndex /\ [][NextReindex]_vars

NextCluster == Index \/ ClusterEmbeddings

SpecCluster == InitIndex /\ [][NextCluster]_vars

NextEmbed == IndexOdd \/ ClusterEmbeddings

SpecEmbed == InitIndex /\ [][NextEmbed]_vars

\* a three-photo library with its phash table, nothing tagged or indexed yet
InitDate ==
    /\ photos \in PhotoTables
    /\ date_col \in BOOLEAN
    /\ phash \in PhashTables
    /\ face_boxes = <<>>
    /\ photo_tags = {}
    /\ committed = [fb |-> face_boxes, tags |-> photo_tags]
    /\ total_changes = 0
    /\ last_pass = NoPass
    /\ op = InitOp
    /\ steps = 0

NextDate == SaveDateReplace \/ AutosaveDate \/ PropagateDateNeighbors

SpecDate == InitDate /\ [][NextDate]_vars

\* the table index() leaves on an empty store for detector output det
IndexedFaces(ph, det) ==
    cluster_embeddings(IndexFrom(ph, 1, <<>>, PhotoIds(ph), det),
                       SimThreshold, MinExamples).fb

\* an indexed three-photo library, nothing tagged yet
InitPerson ==
    /\ photos = PhotosThree(PathB3, NULL)
    /\ date_col = TRUE
    /\ phash \in PhashTables
    /\ face_boxes \in {IndexedFaces(photos, det) : det \in PersonDets}
    /\ photo_tags = {}
    /\ committed = [fb |-> face_boxes, tags |-> photo_tags]
    /\ total_changes = 0
    /\ last_pass = NoPass
    /\ op = InitOp
    /\ steps = 0

NextPerson ==
    \/ ApplyPersonFaces
    \/ ClearPersonFaces
    \/ ClearPersonFacesWidget
    \/ PropagatePerson
    \/ UpsertPersonTag

SpecPerson == InitPerson /\ [][NextPerson]_vars

\* the two person actions of the panel of app/ui_tagging.py
NextPanel == ApplyPersonFaces \/ ClearPersonFaces

SpecPanel == InitPerson /\ [][NextPanel]_vars

\* the person actions of the panel and re-indexing of the library
NextLibrary == ApplyPersonFaces \/ ClearPersonFaces \/ IndexLibrary

SpecLibrary == InitPerson /\ [][NextLibrary]_vars

\* remove-person and apply-date of both panels, on a library in which
\* persons have been applied to faces
NextPanels ==
    \/ ApplyPersonFaces
    \/ ClearPersonFaces
    \/ ClearPersonFacesWidget
    \/ SaveDateReplace
    \/ AutosaveDate

SpecPanels == InitPerson /\ [][NextPanels]_vars

\* ------------------------------------------------------------------------
\* Actions that raise partway, and the specification with them
\* ------------------------------------------------------------------------
\* The except branch of the panel shows a message box and returns: there is
\* no rollback.  kept = TRUE: the failed statement alone is undone and the
\* connection's transaction stays open with the earlier writes (a
\* constraint error, an interrupt, an exception raised by Python);
\* kept = FALSE: SQLite itself rolled the transaction back (disk full, I/O
\* error, out of memory).
Fails(name, args, view, n, kept) ==
    /\ face_boxes' = IF kept THEN view.fb ELSE committed.fb
    /\ photo_tags' = IF kept THEN view.tags ELSE committed.tags
    /\ total_changes' = total_changes + n
    /\ op' = [name |-> name, args |-> args \o <<kept>>, ret |-> Raised]
    /\ steps' = steps + 1
    /\ UNCHANGED <<photos, date_col, phash, last_pass, committed>>

ApplyPersonFacesFails ==
    /\ steps < MaxSteps
    /\ \E cur \in PhotoIds(photos) : \E face_ids \in Selections(face_boxes, cur) :
       \E person_id \in Persons : \E done \in 1..3 : \E kept \in BOOLEAN :
         LET res == apply_person_faces_upto(face_boxes, photo_tags, cur, face_ids,
                                            person_id, done)
         IN Fails("apply_person_faces_failed", <<cur, face_ids, person_id, done>>,
                  res, res.n, kept)

ClearPersonFacesFails ==
    /\ steps < MaxSteps
    /\ \E cur \in PhotoIds(photos) : \E face_ids \in Selections(face_boxes, cur) :
       \E done \in 1..2 : \E kept \in BOOLEAN :
         LET res == clear_person_faces_upto(face_boxes, photo_tags, cur, face_ids, done)
         IN Fails("clear_person_faces_failed", <<cur, face_ids, done>>, res, res.n, kept)

SaveDateReplaceFails ==
    /\ steps < MaxSteps
    /\ \E cur \in PhotoIds(photos) : \E day \in Days : \E done \in 1..2 :
       \E kept \in BOOLEAN :
         LET res == SaveDateUpto(photo_tags, cur, IsoDateTime(day, 0), done)
         IN Fails("save_date_replace_failed", <<cur, IsoDateTime(day, 0), done>>,
                  [fb |-> face_boxes, tags |-> res.tags], res.n, kept)

NextAtomic ==
    \/ ApplyPersonFaces
    \/ ClearPersonFaces
    \/ SaveDateReplace
    \/ ApplyPersonFacesFails
    \/ ClearPersonFacesFails
    \/ SaveDateReplaceFails

SpecAtomic == InitPerson /\ [][NextAtomic]_vars

\* ------------------------------------------------------------------------
\* Clustering properties
\* ------------------------------------------------------------------------
AfterPass == op.name \in {"index", "cluster_embeddings"} /\ last_pass.ran

FaceRow(key) ==
    CHOOSE r \in Range(face_boxes) : r.photo_id = key[1] /\ r.face_id = key[2]

\* C1: after a clustering pass, the faces of a cluster of this pass with
\* exactly min_examples - 1 members all have cluster_id NULL, and the faces
\* of a cluster with at least min_examples members all carry one and the
\* same non-NULL cluster_id.
C1_MinimumClusterSize ==
    AfterPass =>
      \A ci \in DOMAIN last_pass.members :
        LET m == last_pass.members[ci]
        IN /\ Len(m) = last_pass.min_examples - 1 =>
                \A k \in DOMAIN m : FaceRow(m[k]).cluster_id = NULL
           /\ Len(m) >= last_pass.min_examples =>
                /\ FaceRow(m[1]).cluster_id # NULL
                /\ \A k \in DOMAIN m : FaceRow(m[k]).cluster_id = FaceRow(m[1]).cluster_id

\* position of the face in the clusters built by the last pass
ClusterOf(key) ==
    CHOOSE ci \in DOMAIN last_pass.members : key \in Range(last_pass.members[ci])

\* C2: in the clustering pass, an embedding whose best cosine similarity is
\* exactly the threshold joins the best cluster, one strictly below the
\* threshold starts a new cluster, and with no centroid it always starts a
\* new cluster.
C2_ThresholdBoundary ==
    AfterPass =>
      \A k \in DOMAIN last_pass.log :
        LET e   == last_pass.log[k]
            key == <<e.photo_id, e.face_id>>
            thr == last_pass.sim_threshold * Scale
        IN /\ (e.ncentroids > 0 /\ e.sim = thr) => ClusterOf(key) = e.idx + 1
           /\ (e.ncentroids > 0 /\ e.sim < thr) =>
                 /\ ClusterOf(key) = e.ncentroids + 1
                 /\ last_pass.members[e.ncentroids + 1][1] = key
           /\ e.ncentroids = 0 =>
                 /\ ClusterOf(key) = 1
                 /\ last_pass.members[1][1] = key

\* a pass in which an embedding met its best centroid exactly at the
\* threshold and joined that cluster
C2_Witness ==
    /\ AfterPass
    /\ \E k \in DOMAIN last_pass.log :
         LET e == last_pass.log[k]
         IN /\ e.ncentroids > 0
            /\ e.sim = last_pass.sim_threshold * Scale
            /\ ClusterOf(<<e.photo_id, e.face_id>>) = e.idx + 1

\* C17: after every clustering pass, over any sequence of index() runs, each
\* face's cluster_id is exactly the label this pass computed for it: NULL
\* when its cluster in this pass has fewer than min_examples members, so no
\* face keeps a cluster_id written by an earlier pass.
C17_LabelsRecomputed ==
    AfterPass =>
      \A k \in DOMAIN face_boxes :
        LET ci == ClusterOf(<<face_boxes[k].photo_id, face_boxes[k].face_id>>)
        IN face_boxes[k].cluster_id =
              IF Len(last_pass.members[ci]) < last_pass.min_examples THEN NULL
              ELSE ClusterLabel(ci - 1)

\* the grouping of the faces by the last pass
Partition(pass) == {Range(pass.members[ci]) : ci \in DOMAIN pass.members}

\* faces the table leaves without a label
Unlabeled(fb) ==
    {<<fb[k].photo_id, fb[k].face_id>> : k \in {j \in DOMAIN fb : fb[j].cluster_id = NULL}}

C19_AscendingOrder ==
    AfterPass =>
      \A i, j \in DOMAIN last_pass.log :
        i < j => \/ last_pass.log[i].photo_id < last_pass.log[j].photo_id
                 \/ /\ last_pass.log[i].photo_id = last_pass.log[j].photo_id
                    /\ last_pass.log[i].face_id < last_pass.log[j].face_id

\* a zero-norm embedding, or one whose size is not the model's
IsOdd(embedding) == Norm(embedding) = 0 \/ Len(embedding) # Dim

\* C20: in a clustering pass an embedding with zero norm or with a size
\* different from the others is skipped without raising: the pass
\* completes, the embedding is in no cluster (so it is no centroid), and the
\* other embeddings are grouped as they are without it.
C20_OddEmbeddingsSkipped ==
    op.name \in {"index", "cluster_embeddings"} =>
      /\ op.ret # Raised
      /\ \A k \in DOMAIN face_boxes :
           IsOdd(face_boxes[k].embedding) =>
             \A ci \in DOMAIN last_pass.members :
                <<face_boxes[k].photo_id, face_boxes[k].face_id>>
                   \notin Range(last_pass.members[ci])
      /\ last_pass.members =
           AssignClusters(LoadItems(SelectSeq(face_boxes,
                              LAMBDA r : ~IsOdd(r.embedding))),
                          last_pass.sim_threshold).members

\* sum of the normalised embeddings of the faces in keys, component j
RECURSIVE SumOver(_, _)
SumOver(keys, j) ==
    IF keys = {} THEN 0
    ELSE LET key == CHOOSE x \in keys : TRUE
         IN l2_normalize(FaceRow(key).embedding)[j] + SumOver(keys \ {key}, j)

\* unit-normalised arithmetic mean of the members' embeddings
NormalizedMean(m) ==
    l2_normalize([j \in DOMAIN FaceRow(m[1]).embedding |-> SumOver(Range(m), j)])

\* C21: after a cluster has been joined by n members, its centroid equals
\* the unit-normalized arithmetic mean of all n member embeddings (up to
\* the rounding of the arithmetic, 0.003 per component), whatever the order
\* in which the members were assigned.
C21_CentroidIsNormalizedMean ==
    AfterPass =>
      \A ci \in DOMAIN last_pass.members :
        LET c    == last_pass.centroids[ci]
            mean == NormalizedMean(last_pass.members[ci])
        IN \A j \in DOMAIN c : Abs(c[j] - mean[j]) <= 3

\* C23: after index() the face rows of every photo it processed are exactly
\* the detector's output for that photo (face_id 0..n-1, the embeddings in
\* detection order, no row left from an earlier run), and index() run again
\* with the same detector output leaves the same face_boxes table, cluster
\* labels included.
C23_ReindexIdempotent ==
    [][op'.name \in {"index", "reindex"}
       => /\ \A p \in DOMAIN op'.args[3] :
               LET faces == op'.args[3][p]
                   rows  == SelectSeq(face_boxes', LAMBDA r : r.photo_id = p)
               IN /\ Len(rows) = Len(faces)
                  /\ \A k \in DOMAIN rows :
                       /\ rows[k].face_id = k - 1
                       /\ rows[k].embedding = l2_normalize(faces[k])
          /\ op'.name = "reindex" => face_boxes' = face_boxes]_vars

\* index() was run again with the same detector output on a photo with a
\* face that the clustering pass has labelled
C23_Witness ==
    /\ op.name = "reindex"
    /\ \E p \in DOMAIN op.args[3] :
         /\ Len(op.args[3][p]) >= 1
         /\ \E r \in Range(face_boxes) : r.photo_id = p /\ r.cluster_id # NULL

\* ------------------------------------------------------------------------
\* Date properties
\* ------------------------------------------------------------------------
ApplyDateOps == {"save_date_replace", "autosave_date"}

\* C3: applying a human date D1 and then a human date D2 to the same photo
\* through the apply-date action leaves that photo with exactly one date
\* tag, whose value is D2 and whose source is "human".
C3_DateReplaceSemantics ==
    [][(/\ op.name \in ApplyDateOps
        /\ op'.name \in ApplyDateOps
        /\ op'.args[1] = op.args[1])
       => DateRows(photo_tags', op'.args[1]) =
             {TagRow(op'.args[1], "date", op'.args[2], "human", 100)}]_vars

\* operations that edit the tags of one photo on behalf of the user
HumanOps == ApplyDateOps \cup {"apply_person_faces", "clear_person_faces",
                               "clear_person_faces_widget", "upsert_person_tag"}

\* C4: no propagation (cluster person propagation, duplicate propagation,
\* time-neighbor date propagation with default options) changes or deletes
\* a tag row whose source is "human"; such a row stays as written until a
\* human action on its photo changes it.
C4_HumanTagsKept ==
    [][\A r \in photo_tags :
          (/\ r.source = "human"
           /\ ~(op'.name \in HumanOps /\ op'.args[1] = r.photo_id)
           /\ ~(op'.name = "propagate_date_neighbors" /\ ~op'.args[5]))
          => r \in photo_tags']_vars

\* C5: after any sequence of apply-date, duplicate date propagation and
\* time-neighbor date propagation, every photo has at most one date tag.
C5_OneDatePerPhoto ==
    \A p \in PhotoIds(photos) : Cardinality(DateRows(photo_tags, p)) <= 1

\* C12: when a human date is applied to a photo of an exact perceptual-hash
\* duplicate group with apply-to-duplicates enabled, every other member of
\* the group ends with exactly one date tag, carrying the same value with
\* source "propagated" and confidence 0.95, and the edited photo keeps its
\* one human date tag (it is not rewritten as a duplicate).
C12_DuplicateDatePropagation ==
    [][(/\ op'.name \in ApplyDateOps
        /\ op'.args[3]
        /\ fetch_phash(phash, op'.args[1]) # NoHash)
       => LET cur   == op'.args[1]
              iso   == op'.args[2]
              group == photos_by_phash(phash, fetch_phash(phash, cur))
          IN /\ \A q \in group \ {cur} :
                  DateRows(photo_tags', q) = {TagRow(q, "date", iso, "propagated", 95)}
             /\ DateRows(photo_tags', cur) = {TagRow(cur, "date", iso, "human", 100)}]_vars

\* C14: with only_if_missing_human=True, propagate_date_neighbors leaves the
\* date tags of every photo that already carries a human-sourced date tag
\* unchanged (no row added, updated or removed) and does not count such a
\* photo in the returned number.
C14_HumanDatedNeighborsSkipped ==
    [][(op'.name = "propagate_date_neighbors" /\ op'.args[5])
       => LET humans == {q \in PhotoIds(photos) :
                            \E r \in DateRows(photo_tags, q) : r.source = "human"}
          IN /\ \A q \in humans : DateRows(photo_tags', q) = DateRows(photo_tags, q)
             /\ op'.ret # Raised =>
                  op'.ret <= Cardinality(PhotoIds(photos) \ (humans \cup {op'.args[1]}))]_vars

\* a call with only_if_missing_human=True over the whole library tagged
\* another photo while a photo inside the window carries a human date
C14_Witness ==
    /\ op.name = "propagate_date_neighbors"
    /\ op.args[5] /\ ~op.args[4]
    /\ op.ret >= 1
    /\ \E q \in PhotoIds(photos) \ {op.args[1]} :
         /\ \E r \in DateRows(photo_tags, q) : r.source = "human"
         /\ WithinWindow(NeighborTime(PhotoRow(photos, q)), parse_iso(op.args[2]), op.args[3])
         /\ TagRow(q, "date", op.args[2], "propagated_time", 75) \notin photo_tags

\* C15: for every candidate photo other than the base photo that is not
\* skipped, propagate_date_neighbors writes the date tag (iso_dt,
\* "propagated_time", 0.75) if and only if the candidate's timestamp is at
\* most window_minutes from the anchor (a difference equal to the window is
\* included); the base photo never receives such a tag and the returned
\* number is the number of photos written.
C15_WindowBoundary ==
    [][(op'.name = "propagate_date_neighbors" /\ parse_iso(op'.args[2]) # NoTime)
       => LET base   == op'.args[1]
              iso_dt == op'.args[2]
              cands  == {r.id : r \in Range(Candidates(photos,
                                     dirname(PhotoRow(photos, base).path), op'.args[4]))}
              kept   == {q \in cands \ {base} :
                            /\ ~(op'.args[5] /\ \E r \in DateRows(photo_tags, q) :
                                                    r.source = "human")
                            /\ NeighborTime(PhotoRow(photos, q)) # NoTime}
              near   == {q \in kept :
                            Abs(NeighborTime(PhotoRow(photos, q)) - parse_iso(iso_dt))
                               <= op'.args[3] * 60}
          IN /\ \A q \in kept :
                  TagRow(q, "date", iso_dt, "propagated_time", 75) \in photo_tags'
                     <=> q \in near
             /\ TagRow(base, "date", iso_dt, "propagated_time", 75) \in photo_tags'
                  => TagRow(base, "date", iso_dt, "propagated_time", 75) \in photo_tags
             /\ op'.ret = Cardinality(near)]_vars

\* C24: in propagate_date_neighbors a candidate's timestamp is its stored
\* capture time when that parses and its file modification time otherwise,
\* both when the capture-time column is empty for the candidate and when the
\* photo table has no capture-time column; the call does not fail in either
\* case, and a candidate whose modification time cannot be read is skipped.
C24_TimestampFallback ==
    [][(op'.name = "propagate_date_neighbors" /\ parse_iso(op'.args[2]) # NoTime)
       => LET base   == op'.args[1]
              iso_dt == op'.args[2]
              stamp(r) == IF date_col /\ r.exif_date # NULL
                             /\ parse_iso(r.exif_date) # NoTime
                          THEN parse_iso(r.exif_date)
                          ELSE r.mtime
          IN /\ op'.ret # Raised
             /\ \A k \in DOMAIN photos :
                  LET r == photos[k]
                  IN (/\ r.id # base
                      /\ r.id \in {c.id : c \in Range(Candidates(photos,
                                        dirname(PhotoRow(photos, base).path), op'.args[4]))}
                      /\ ~(op'.args[5] /\ \E t \in DateRows(photo_tags, r.id) :
                                              t.source = "human"))
                     => (TagRow(r.id, "date", iso_dt, "propagated_time", 75) \in photo_tags'
                           <=> /\ stamp(r) # NoFile
                               /\ Abs(stamp(r) - parse_iso(iso_dt)) <= op'.args[3] * 60)]_vars

\* C25: with same_folder_only=True propagate_date_neighbors writes a date
\* tag only to photos whose directory is the directory of the base photo.
C25_SameFolderOnly ==
    [][(op'.name = "propagate_date_neighbors" /\ op'.args[4])
       => \A r \in photo_tags' \ photo_tags :
            dirname(PhotoRow(photos, r.photo_id).path) =
            dirname(PhotoRow(photos, op'.args[1]).path)]_vars

\* ------------------------------------------------------------------------
\* Person propagation properties
\* ------------------------------------------------------------------------
HasPersonTag(tags, photo_id, person_id) ==
    \E r \in tags :
        r.photo_id = photo_id /\ r.tag_type = "person" /\ r.tag_value = Str(person_id)

\* photo q has a face in a cluster (non-NULL cluster_id) that also has a
\* face of photo p
SharesCluster(p, q) ==
    \E r, t \in Range(face_boxes) :
        /\ r.photo_id = p /\ t.photo_id = q
        /\ r.cluster_id # NULL /\ r.cluster_id = t.cluster_id

\* C6: calling propagate_person_from_photo twice in a row with the same
\* arguments yields the same photo_tags after the second call as after the
\* first, and the second call reports 0.
C6_PropagationIdempotent ==
    [][(/\ op.name = "propagate_person_from_photo"
        /\ op'.name = "propagate_person_from_photo"
        /\ op'.args = op.args)
       => (photo_tags' = photo_tags /\ op'.ret = 0)]_vars

\* C7: the value returned by propagate_person_from_photo is the number of
\* photos other than photo_id that had no person tag for person_id before
\* the call and have one after it.
C7_ReturnsNewlyTagged ==
    [][op'.name = "propagate_person_from_photo"
       => op'.ret = Cardinality({p \in PhotoIds(photos) \ {op'.args[1]} :
                        /\ ~HasPersonTag(photo_tags, p, op'.args[2])
                        /\ HasPersonTag(photo_tags', p, op'.args[2])})]_vars

\* C8: cluster person propagation never modifies an existing person row:
\* propagate_person_from_photo leaves every existing row for the person as
\* it was, and so does the propagation step of _apply_person_faces (the row
\* of the edited photo is the one the upsert before that step wrote).
C8_PropagationKeepsExistingRows ==
    [][/\ op'.name = "propagate_person_from_photo"
          => \A r \in photo_tags :
                (r.tag_type = "person" /\ r.tag_value = Str(op'.args[2]))
                => r \in photo_tags'
       /\ op'.name = "apply_person_faces"
          => /\ \A r \in photo_tags :
                  (/\ r.tag_type = "person" /\ r.tag_value = Str(op'.args[3])
                   /\ r.photo_id # op'.args[1])
                  => r \in photo_tags'
             /\ TagRow(op'.args[1], "person", Str(op'.args[3]), "face", 100)
                  \in photo_tags']_vars

\* a propagation that met a row a human or the face assignment had written
\* on a photo sharing a cluster with the source photo
C8_Witness ==
    /\ op.name = "propagate_person_from_photo"
    /\ \E r \in photo_tags :
         /\ r.tag_type = "person" /\ r.tag_value = Str(op.args[2])
         /\ r.source \in {"human", "face"}
         /\ r.photo_id # op.args[1]
         /\ SharesCluster(op.args[1], r.photo_id)

\* C9: after propagate_person_from_photo(photo_id, person_id) every other
\* photo sharing a non-NULL cluster with photo_id has a person tag for
\* person_id, every row the call inserted has source "propagated_cluster"
\* and confidence 0.90, and a source photo without clustered faces makes
\* the call return 0 and write nothing.
C9_PropagationReachesClusterMates ==
    [][op'.name = "propagate_person_from_photo"
       => LET photo_id  == op'.args[1]
              person_id == op'.args[2]
          IN /\ \A q \in PhotoIds(photos) \ {photo_id} :
                  SharesCluster(photo_id, q) => HasPersonTag(photo_tags', q, person_id)
             /\ \A r \in photo_tags' \ photo_tags :
                  /\ r.tag_type = "person" /\ r.tag_value = Str(person_id)
                  /\ r.source = "propagated_cluster" /\ r.confidence = 90
             /\ (\A r \in Range(face_boxes) : r.photo_id = photo_id => r.cluster_id = NULL)
                  => (op'.ret = 0 /\ photo_tags' = photo_tags)]_vars

\* the first operation on an untagged library was a propagation, and it
\* tagged two other photos that share a cluster with the source photo
C9_Witness ==
    /\ op.name = "propagate_person_from_photo"
    /\ steps = 1
    /\ \E q1, q2 \in PhotoIds(photos) \ {op.args[1]} :
         /\ q1 # q2
         /\ \A q \in {q1, q2} :
              /\ SharesCluster(op.args[1], q)
              /\ TagRow(q, "person", Str(op.args[2]), "propagated_cluster", 90) \in photo_tags

\* C13: when apply-person assigns person p to selected faces of a photo of
\* an exact perceptual-hash duplicate group, every other member of the group
\* has a person tag for p with source "propagated" and confidence 0.95.
C13_DuplicatePersonPropagation ==
    [][(/\ op'.name = "apply_person_faces"
        /\ fetch_phash(phash, op'.args[1]) # NoHash)
       => \A q \in photos_by_phash(phash, fetch_phash(phash, op'.args[1])) \ {op'.args[1]} :
             TagRow(q, "person", Str(op'.args[3]), "propagated", 95) \in photo_tags']_vars

\* C26: propagate_person_from_photo(photo_id, person_id) changes photo_tags
\* only on photos other than photo_id that share a non-null cluster with a
\* face of photo_id; the rows of the source photo and of photos with no
\* face in those clusters are unchanged.
C26_PropagationTargetsOnly ==
    [][op'.name = "propagate_person_from_photo"
       => \A r \in (photo_tags' \ photo_tags) \cup (photo_tags \ photo_tags') :
            /\ r.photo_id # op'.args[1]
            /\ SharesCluster(op'.args[1], r.photo_id)]_vars

C29_ClusterAssignment ==
    [][op'.name = "apply_person_faces"
       => LET cur  == op'.args[1]
              p    == op'.args[3]
              cids == {r.cluster_id : r \in {q \in Range(face_boxes) :
                          /\ q.photo_id = cur /\ q.face_id \in op'.args[2]
                          /\ q.cluster_id # NULL}}
          IN /\ DOMAIN face_boxes' = DOMAIN face_boxes
             /\ \A k \in DOMAIN face_boxes :
                  IF face_boxes[k].cluster_id # NULL /\ face_boxes[k].cluster_id \in cids
                  THEN face_boxes'[k].assigned_person_id = p
                  ELSE face_boxes'[k].assigned_person_id = face_boxes[k].assigned_person_id
             /\ TagRow(cur, "person", Str(p), "face", 100) \in photo_tags']_vars

\* C29 amended: after apply-person with person p to selected faces of a
\* photo, the selected faces and every face of any photo whose non-null
\* cluster_id is the cluster_id of a selected face are assigned to p
\* (replacing an earlier assignment), the edited photo has the person tag
\* (p, "face", 1.0), and every other face keeps its assignment.
C29_SelectedAndClusterAssignment ==
    [][op'.name = "apply_person_faces"
       => LET cur  == op'.args[1]
              p    == op'.args[3]
              sel  == {k \in DOMAIN face_boxes :
                          /\ face_boxes[k].photo_id = cur
                          /\ face_boxes[k].face_id \in op'.args[2]}
              cids == {face_boxes[k].cluster_id : k \in {j \in sel :
                          face_boxes[j].cluster_id # NULL}}
          IN /\ DOMAIN face_boxes' = DOMAIN face_boxes
             /\ \A k \in DOMAIN face_boxes :
                  IF \/ k \in sel
                     \/ face_boxes[k].cluster_id # NULL /\ face_boxes[k].cluster_id \in cids
                  THEN face_boxes'[k].assigned_person_id = p
                  ELSE face_boxes'[k].assigned_person_id = face_boxes[k].assigned_person_id
             /\ TagRow(cur, "person", Str(p), "face", 100) \in photo_tags']_vars

\* person p was applied to a face of a photo; a cluster mate of that face
\* in another photo is assigned to p, and that photo still carries the
\* cluster-propagated tag of another person, written when its face was
\* assigned to that person by an earlier apply-person
C29_Witness ==
    /\ op.name = "apply_person_faces"
    /\ \E r, t \in Range(face_boxes) :
         /\ r.photo_id = op.args[1] /\ r.face_id \in op.args[2]
         /\ t.photo_id # op.args[1]
         /\ r.cluster_id # NULL /\ t.cluster_id = r.cluster_id
         /\ t.assigned_person_id = op.args[3]
         /\ \A u \in Range(face_boxes) :
               u.photo_id = t.photo_id => u.assigned_person_id = op.args[3]
         /\ \E q \in Persons \ {op.args[3]} :
               TagRow(t.photo_id, "person", Str(q), "propagated_cluster", 90) \in photo_tags

\* ------------------------------------------------------------------------
\* Retraction properties
\* ------------------------------------------------------------------------
ClearOps == {"clear_person_faces", "clear_person_faces_widget"}

\* C10: removing a person from selected faces of photo A changes or deletes
\* no photo_tags row of any other photo, and changes the assigned_person_id
\* of no face_boxes row other than the selected faces of A.
C10_RetractionIsLocal ==
    [][op'.name \in ClearOps
       => /\ {r \in photo_tags : r.photo_id # op'.args[1]} =
             {r \in photo_tags' : r.photo_id # op'.args[1]}
          /\ DOMAIN face_boxes' = DOMAIN face_boxes
          /\ \A k \in DOMAIN face_boxes :
               ~(face_boxes[k].photo_id = op'.args[1] /\ face_boxes[k].face_id \in op'.args[2])
               => face_boxes'[k] = face_boxes[k]]_vars

\* a removal that retracted the tag of the edited photo while another photo
\* keeps both its tag and a face assigned to the removed person
C10_Witness ==
    /\ op.name \in ClearOps
    /\ \E p \in op.args[3] :
         /\ ~HasPersonTag(photo_tags, op.args[1], p)
         /\ \E q \in PhotoIds(photos) \ {op.args[1]} :
              /\ HasPersonTag(photo_tags, q, p)
              /\ \E r \in Range(face_boxes) : r.photo_id = q /\ r.assigned_person_id = p

\* C11: after _clear_person_faces of app/ui_tagging.py removes person p from
\* selected faces of a photo, if no face of that photo is still assigned to
\* p then the photo has no person tag for p, whatever the source of the tag.
C11_UnsupportedTagRemoved ==
    [][op'.name = "clear_person_faces"
       => \A p \in op'.args[3] :
            (\A r \in Range(face_boxes') :
                r.photo_id = op'.args[1] => r.assigned_person_id # p)
            => \A r \in photo_tags' :
                 ~(/\ r.photo_id = op'.args[1] /\ r.tag_type = "person"
                   /\ r.tag_value = Str(p))]_vars

\* a removal in app/ui_tagging.py took person p off the last face of the
\* photo that was assigned to p, and the photo has no tag for p any more
\* (the assignment had written one with source "face" or
\* "propagated_cluster")
C11_Witness ==
    /\ op.name = "clear_person_faces"
    /\ \E p \in op.args[3] :
         /\ \A r \in Range(face_boxes) :
               r.photo_id = op.args[1] => r.assigned_person_id # p
         /\ ~HasPersonTag(photo_tags, op.args[1], p)
         /\ \E r \in Range(face_boxes) : r.assigned_person_id = p

\* C27: after any sequence of apply-person and remove-person actions, a
\* photo with a face still assigned to person p has a person tag for p.
C27_AssignedFaceHasTag ==
    \A r \in Range(face_boxes) :
        r.assigned_person_id # NullPerson
        => HasPersonTag(photo_tags, r.photo_id, r.assigned_person_id)

\* C28: in every state reachable by apply-person, remove-person and
\* index(), a photo that has a person tag for p with source "face" or
\* "propagated_cluster" has at least one face assigned to p.
C28_FaceTagHasAssignedFace ==
    \A t \in photo_tags :
        (t.tag_type = "person" /\ t.source \in {"face", "propagated_cluster"})
        => \E r \in Range(face_boxes) :
             r.photo_id = t.photo_id /\ Str(r.assigned_person_id) = t.tag_value

Replay(c, o) ==
    CASE o.name = "apply_person_faces" ->
           LET res == apply_person_faces(c.fb, c.tags, o.args[1], o.args[2], o.args[3])
           IN [fb |-> res.fb, tags |-> res.tags]
      [] o.name = "clear_person_faces" ->
           LET res == clear_person_faces(c.fb, c.tags, o.args[1], o.args[2])
           IN [fb |-> res.fb, tags |-> res.tags]
      [] o.name = "save_date_replace" ->
           [fb |-> c.fb,
            tags |-> SaveDate(c.tags, phash, o.args[1], o.args[2], o.args[3]).tags]
      [] OTHER -> c

\* C16: each user action (apply person to faces, remove person from faces,
\* apply date) is atomic on the store: the committed tables change only by
\* the writes of whole actions, so no write of an action that failed
\* partway is ever committed, not even by the commit of a later action on
\* the same connection.
C16_ActionsAtomic ==
    [][committed' = Replay(committed, op')]_vars

====
